---- MODULE Spec2Model ----
(***************************************************************************)
(* Model of the Skyscraper facade (src/src/skyscraper.ts): configuration   *)
(* resolution, session lifecycle, single-URL scraping with its two         *)
(* extraction strategies, and the sequential batch loop.                   *)
(*                                                                         *)
(* JavaScript objects live in `store`, a heap indexed by references, so    *)
(* that aliasing between the facade's options object, the copies handed    *)
(* out by getOptions and the nested viewport / proxy objects is explicit.  *)
(***************************************************************************)
EXTENDS Integers, Sequences, FiniteSets, TLC

VARIABLES
    store,         \* heap: reference -> object
    this_options,  \* this.options (reference into store)
    held,          \* reference the caller holds from the last getOptions (0: none)
    supplied,      \* the argument of the constructor call that built the facade
    lastOp,        \* name of the last configuration operation performed
    browser,       \* this.browser: 0 = undefined, otherwise the handle's number
    page,          \* this.page:    0 = undefined, otherwise the handle's number
    closeReq,      \* per handle: number of close() requests the backend received
    last,          \* outcome of the init / close / scrapeUrl call that just settled
    pc,            \* position of the scrapeUrls flow
    cfg,           \* the ScrapingConfig of the running batch
    idx,           \* index of the URL the for-loop is at
    results,       \* scrapeUrls' local `results`
    errors,        \* scrapeUrls' local `errors`
    trace,         \* what the batch did so far, in order
    scraped,       \* per URL index: the result scrapeUrl produced for it
    completed      \* the arguments of each config.onComplete call

vars == <<store, this_options, held, supplied, lastOp, browser, page, closeReq,
          last, pc, cfg, idx, results, errors, trace, scraped, completed>>

cfgVars   == <<store, this_options, held, supplied>>
lifeVars  == <<browser, page, closeReq>>
batchVars == <<pc, cfg, idx, results, errors, trace, scraped, completed>>

----------------------------------------------------------------------------
(* Bounds *)

MaxObjs  == 8     \* size of the heap
MaxUrls  == 2     \* longest batch
MaxSel   == 2     \* longest selector list
MaxClose == 2     \* close() requests per handle

RefIds == 1..MaxObjs

----------------------------------------------------------------------------
(* Optional values: a field of a partial object is present or absent.      *)

Some(v) == [def |-> TRUE, val |-> v]
NoNum   == [def |-> FALSE, val |-> 0]
NoStr   == [def |-> FALSE, val |-> ""]
NoBool  == [def |-> FALSE, val |-> FALSE]
NoView  == [def |-> FALSE, val |-> [width |-> 0, height |-> 0]]
NoProxy == [def |-> FALSE, val |-> [server |-> ""]]

\* JavaScript `x || d` on an optional number / string: undefined, 0 and ""
\* are falsy.
OrNum(x, d) == IF x.def /\ x.val # 0 THEN x.val ELSE d
OrStr(x, d) == IF x.def /\ x.val # "" THEN x.val ELSE d

DefaultUserAgent == "Mozilla/5.0 (Windows NT 10.0; Win64; x64) AppleWebKit/537.36"
DefaultViewport  == [width |-> 1920, height |-> 1080]

EmptyPartial ==
    [engine |-> NoStr, headless |-> NoBool, timeout |-> NoNum,
     userAgent |-> NoStr, viewport |-> NoView, proxy |-> NoProxy,
     retries |-> NoNum, delay |-> NoNum, concurrency |-> NoNum]

----------------------------------------------------------------------------
(* Heap helpers *)

EmptyStore == [r \in {} |-> 0]

Put(st, r, obj) == [x \in DOMAIN st \cup {r} |-> IF x = r THEN obj ELSE st[x]]

\* the lowest free reference
Fresh(st) == CHOOSE r \in RefIds \ DOMAIN st : \A q \in RefIds \ DOMAIN st : r <= q

\* objects reachable from the option objects in `roots`
Reach(st, roots) ==
    LET top == roots \ {0}
    IN  top \cup (({st[r].viewport : r \in top} \cup {st[r].proxy : r \in top}) \ {0})

\* Addresses carry no meaning: after every operation the live objects are
\* renumbered (this.options 1, its viewport 2, its proxy 3, the caller's object
\* 4, that object's own viewport 5 and proxy 6) and garbage is dropped.
Ren(st, this, h, r) ==
    IF r = 0 THEN 0
    ELSE IF r = this THEN 1
    ELSE IF r = st[this].viewport THEN 2
    ELSE IF r = st[this].proxy THEN 3
    ELSE IF r = h THEN 4
    ELSE IF r = st[h].viewport THEN 5
    ELSE 6

Canon(st, this, h) ==
    LET live == Reach(st, {this, h})
        Src(n) == CHOOSE r \in live : Ren(st, this, h, r) = n
        Obj(n) == IF n \in {1, 4}
                  THEN [st[Src(n)] EXCEPT !.viewport = Ren(st, this, h, @),
                                          !.proxy = Ren(st, this, h, @)]
                  ELSE st[Src(n)]
    IN  [n \in {Ren(st, this, h, r) : r \in live} |-> Obj(n)]

----------------------------------------------------------------------------
(* constructor *)

Constructor(options) ==
    LET st1 == Put(EmptyStore, 2,
                   IF options.viewport.def THEN options.viewport.val
                                           ELSE DefaultViewport)
        st2 == IF options.proxy.def THEN Put(st1, 3, options.proxy.val) ELSE st1
        obj == [engine      |-> OrStr(options.engine, "puppeteer"),
                headless    |-> ~(options.headless.def /\ options.headless.val = FALSE),
                timeout     |-> OrNum(options.timeout, 30000),
                userAgent   |-> OrStr(options.userAgent, DefaultUserAgent),
                viewport    |-> 2,
                proxy       |-> IF options.proxy.def THEN 3 ELSE 0,
                retries     |-> OrNum(options.retries, 3),
                delay       |-> OrNum(options.delay, 1000),
                concurrency |-> OrNum(options.concurrency, 1)]
    IN  [store |-> Put(st2, 1, obj), ref |-> 1]

\* this.options, dereferenced
options == store[this_options]

----------------------------------------------------------------------------
(* getOptions: { ...this.options } *)

GetOptions_alias(st, ref) == [store |-> st, ref |-> ref]

GetOptions(st, ref) ==
    LET r == Fresh(st)
    IN  [store |-> Put(st, r, st[ref]), ref |-> r]

(* updateOptions: this.options = { ...this.options, ...newOptions } *)

UpdateOptions(st, ref, newOptions) ==
    LET old == st[ref]
        vr  == Fresh(st)
        st1 == IF newOptions.viewport.def THEN Put(st, vr, newOptions.viewport.val) ELSE st
        pr  == Fresh(st1)
        st2 == IF newOptions.proxy.def THEN Put(st1, pr, newOptions.proxy.val) ELSE st1
        r   == Fresh(st2)
        Pick(o, cur) == IF o.def THEN o.val ELSE cur
        obj == [engine      |-> Pick(newOptions.engine, old.engine),
                headless    |-> Pick(newOptions.headless, old.headless),
                timeout     |-> Pick(newOptions.timeout, old.timeout),
                userAgent   |-> Pick(newOptions.userAgent, old.userAgent),
                viewport    |-> IF newOptions.viewport.def THEN vr ELSE old.viewport,
                proxy       |-> IF newOptions.proxy.def THEN pr ELSE old.proxy,
                retries     |-> Pick(newOptions.retries, old.retries),
                delay       |-> Pick(newOptions.delay, old.delay),
                concurrency |-> Pick(newOptions.concurrency, old.concurrency)]
    IN  [store |-> Put(st2, r, obj), ref |-> r]

\* the field values a getOptions call would show, nested objects included
Deep(st, ref) ==
    [engine |-> st[ref].engine, headless |-> st[ref].headless,
     timeout |-> st[ref].timeout, userAgent |-> st[ref].userAgent,
     viewport |-> st[st[ref].viewport],
     proxy |-> IF st[ref].proxy = 0 THEN NoProxy ELSE Some(st[st[ref].proxy]),
     retries |-> st[ref].retries, delay |-> st[ref].delay,
     concurrency |-> st[ref].concurrency]

----------------------------------------------------------------------------
(* Values shared by the specifications *)

NoCall == [op |-> "none"]
NoCfg  == [urls |-> <<>>, selectors |-> <<>>,
           onSuccess |-> FALSE, onError |-> FALSE, onComplete |-> FALSE]

\* the state right after `new Skyscraper(options)`
Constructed(partial) ==
    LET c == Constructor(partial)
    IN  /\ store = c.store
        /\ this_options = c.ref
        /\ held = 0
        /\ supplied = partial
        /\ lastOp = "new"
        /\ browser = 0
        /\ page = 0
        /\ closeReq = <<>>
        /\ last = NoCall
        /\ pc = "idle"
        /\ cfg = NoCfg
        /\ idx = 0
        /\ results = <<>>
        /\ errors = <<>>
        /\ trace = <<>>
        /\ scraped = <<>>
        /\ completed = <<>>

----------------------------------------------------------------------------
(* Configuration: constructor, getOptions, updateOptions and what a caller *)
(* can do with the object getOptions returned                              *)

Engines    == {"puppeteer", "playwright", "cheerio"}

\* partial configurations: the fields are varied two or three at a time,
\* each over absent / falsy / ordinary values
CfgPartials ==
    [engine : {NoStr}, headless : {NoBool}, userAgent : {NoStr},
     viewport : {NoView}, proxy : {NoProxy},
     timeout     : {NoNum, Some(0), Some(10000)},
     retries     : {NoNum, Some(0), Some(5)},
     delay       : {NoNum},
     concurrency : {NoNum}]
    \cup
    [engine : {NoStr}, headless : {NoBool}, userAgent : {NoStr},
     viewport : {NoView}, proxy : {NoProxy},
     timeout     : {NoNum},
     retries     : {NoNum},
     delay       : {NoNum, Some(0), Some(250)},
     concurrency : {NoNum, Some(0), Some(4)}]
    \cup
    [engine      : {NoStr, Some("cheerio"), Some("selenium")},
     headless    : {NoBool, Some(TRUE), Some(FALSE)},
     userAgent   : {NoStr, Some("bot/1.0")},
     viewport : {NoView}, proxy : {NoProxy},
     timeout : {NoNum}, retries : {NoNum}, delay : {NoNum}, concurrency : {NoNum}]
    \cup
    [engine : {NoStr}, headless : {NoBool}, userAgent : {NoStr},
     viewport    : {NoView, Some([width |-> 800, height |-> 600])},
     proxy       : {NoProxy, Some([server |-> "proxy:8080"])},
     timeout : {NoNum}, retries : {NoNum}, delay : {NoNum}, concurrency : {NoNum}]

CfgUpdates ==
    { [EmptyPartial EXCEPT !.timeout = Some(15000), !.retries = Some(2)],
      [EmptyPartial EXCEPT !.viewport = Some([width |-> 640, height |-> 480])] }

New(partial) ==
    LET c == Constructor(partial)
    IN  /\ store' = c.store
        /\ this_options' = c.ref
        /\ held' = 0
        /\ supplied' = partial
        /\ lastOp' = "new"
        /\ UNCHANGED <<lifeVars, last, batchVars>>

CallGetOptions ==
    LET g == GetOptions(Canon(store, this_options, 0), this_options)
    IN  /\ Cardinality(DOMAIN store) < MaxObjs
        /\ store' = Canon(g.store, this_options, g.ref)
        /\ this_options' = 1
        /\ held' = Ren(g.store, this_options, g.ref, g.ref)
        /\ lastOp' = "getOptions"
        /\ UNCHANGED <<supplied, lifeVars, last, batchVars>>

CallUpdateOptions(newOptions) ==
    LET u == UpdateOptions(store, this_options, newOptions)
    IN  /\ Cardinality(DOMAIN store) + 3 <= MaxObjs
        /\ store' = Canon(u.store, u.ref, held)
        /\ this_options' = 1
        /\ held' = Ren(u.store, u.ref, held, held)
        /\ lastOp' = "updateOptions"
        /\ UNCHANGED <<supplied, lifeVars, last, batchVars>>

\* the caller assigns a top-level field of the object getOptions returned
MutateTop ==
    /\ held # 0
    /\ \/ store' = [store EXCEPT ![held].timeout = 1]
       \/ store' = [store EXCEPT ![held].engine = "cheerio"]
    /\ lastOp' = "mutateTop"
    /\ UNCHANGED <<this_options, held, supplied, lifeVars, last, batchVars>>

\* the caller assigns a field of the viewport / proxy object reached through
\* the object getOptions returned
MutateNested ==
    /\ held # 0
    /\ \/ store' = [store EXCEPT ![store[held].viewport].width = 1]
       \/ /\ store[held].proxy # 0
          /\ store' = [store EXCEPT ![store[held].proxy].server = "elsewhere:1"]
    /\ lastOp' = "mutateNested"
    /\ UNCHANGED <<this_options, held, supplied, lifeVars, last, batchVars>>

InitCfg == Constructed(EmptyPartial)

NextCfg ==
    \/ \E partial \in CfgPartials : New(partial)
    \/ CallGetOptions
    \/ \E newOptions \in CfgUpdates : CallUpdateOptions(newOptions)
    \/ MutateTop
    \/ MutateNested

SpecCfg == InitCfg /\ [][NextCfg]_vars

----------------------------------------------------------------------------
(* Session lifecycle: init and close                                       *)

\* `${error}` for an Error object
ErrorText(msg) == <<"Error: ">> \o msg

\* what the collaborator does during init
InitEnvs == {"ok", "launchFails", "newPageFails", "setupFails"}

\* initPuppeteer / initPlaywright: launch, newPage, then viewport and user
\* agent; each await may reject, and the fields assigned before it stay assigned
InitBrowser(env, br, pg, creq) ==
    LET h == Len(creq) + 1
    IN  IF env = "launchFails"
        THEN [threw |-> TRUE, err |-> <<"launch failed">>,
              browser |-> br, page |-> pg, closeReq |-> creq]
        ELSE IF env = "newPageFails"
        THEN [threw |-> TRUE, err |-> <<"newPage failed">>,
              browser |-> h, page |-> pg, closeReq |-> Append(creq, 0)]
        ELSE IF env = "setupFails"
        THEN [threw |-> TRUE, err |-> <<"page setup failed">>,
              browser |-> h, page |-> h, closeReq |-> Append(creq, 0)]
        ELSE [threw |-> FALSE, err |-> <<>>,
              browser |-> h, page |-> h, closeReq |-> Append(creq, 0)]

\* the switch inside init's try block
InitSwitch(engine, env, br, pg, creq) ==
    IF engine \in {"puppeteer", "playwright"}
    THEN InitBrowser(env, br, pg, creq)
    ELSE IF engine = "cheerio"
    THEN [threw |-> FALSE, err |-> <<>>,
          browser |-> br, page |-> pg, closeReq |-> creq]
    ELSE [threw |-> TRUE, err |-> <<"Unsupported browser engine: ", engine>>,
          browser |-> br, page |-> pg, closeReq |-> creq]

\* init: whatever the try block throws is rethrown wrapped
init(engine, env, br, pg, creq) ==
    LET b == InitSwitch(engine, env, br, pg, creq)
    IN  IF b.threw
        THEN [b EXCEPT !.err = <<"Failed to initialize browser: ">> \o ErrorText(b.err)]
        ELSE b

\* the error kind a message stands for
ErrorKind(err) ==
    IF err = <<>> THEN "none"
    ELSE IF Head(err) = "Unsupported browser engine: " THEN "UnsupportedEngineError"
    ELSE IF Head(err) = "Failed to initialize browser: " THEN "InitializationError"
    ELSE IF Head(err) = "Request failed: " THEN "RequestError"
    ELSE "Error"

Contains(seq, x) == \E k \in DOMAIN seq : seq[k] = x

\* Handle numbers carry no meaning and a handle that neither this.browser nor
\* this.page refers to can never be used again: after init the handle of
\* this.browser is renumbered 1 and, when this.page still belongs to an older
\* handle, that one 2.
LiveHandles(br, pg, creq) ==
    [browser  |-> IF br = 0 THEN 0 ELSE 1,
     page     |-> IF pg = 0 THEN 0 ELSE IF pg = br THEN 1 ELSE 2,
     closeReq |-> IF br = 0 THEN <<>>
                  ELSE IF pg # 0 /\ pg # br THEN <<creq[br], creq[pg]>>
                  ELSE <<creq[br]>>]

CallInit(env) ==
    LET r == init(options.engine, env, browser, page, closeReq)
        h == LiveHandles(r.browser, r.page, r.closeReq)
    IN  /\ pc = "idle"
        /\ last.op = "none"
        /\ browser' = h.browser
        /\ page' = h.page
        /\ closeReq' = h.closeReq
        /\ last' = [op |-> "init", threw |-> r.threw, err |-> r.err,
                    engine |-> options.engine,
                    acquired |-> Len(r.closeReq) > Len(closeReq)]
        /\ UNCHANGED <<cfgVars, lastOp, batchVars>>

\* close: `if (this.browser) await this.browser.close()`.  What the backend
\* answers to a close of a handle it already destroyed is its own business:
\* it may resolve or reject.
close(br, creq, rejects) ==
    IF br # 0
    THEN [threw |-> rejects /\ creq[br] > 0,
          asked |-> TRUE,
          closeReq |-> [creq EXCEPT ![br] = @ + 1]]
    ELSE [threw |-> FALSE, asked |-> FALSE, closeReq |-> creq]

CallClose(rejects) ==
    LET r == close(browser, closeReq, rejects)
    IN  /\ last.op = "none"
        /\ browser # 0 => closeReq[browser] < MaxClose
        /\ closeReq' = r.closeReq
        /\ last' = [op |-> "close", threw |-> r.threw, asked |-> r.asked,
                    closedBefore |-> browser # 0 /\ closeReq[browser] > 0]
        /\ UNCHANGED <<cfgVars, lastOp, browser, page, batchVars>>

----------------------------------------------------------------------------
(* Pages, selector specs and extracted values                              *)

Urls == {"http://a.test", "http://b.test"}

\* the document served at every URL: selector -> matching elements, in
\* document order
Matches(selector) ==
    IF selector = "h1" THEN <<"h1#1">>
    ELSE IF selector = "a" THEN <<"a#1", "a#2">>
    ELSE <<>>

\* elements carrying an href attribute
HasAttr(el, name) == name = "href" /\ el = "a#1"

\* a SelectorOptions object
Sel(selector, attribute, text, html, multiple) ==
    [selector |-> selector, attribute |-> attribute, text |-> text,
     html |-> html, multiple |-> multiple]

SelPool ==
    { Sel("h1", NoStr, Some(TRUE), NoBool, NoBool),
      Sel("h1", NoStr, NoBool, Some(TRUE), NoBool),
      Sel("a", Some("href"), NoBool, NoBool, Some(TRUE)),
      Sel(".none", NoStr, NoBool, NoBool, NoBool) }

RECURSIVE SeqsUpTo(_, _)
SeqsUpTo(S, n) ==
    IF n = 0 THEN {<<>>}
    ELSE LET shorter == SeqsUpTo(S, n - 1)
         IN  shorter \cup {Append(q, x) : q \in shorter, x \in S}

SelLists == SeqsUpTo(SelPool, MaxSel)

\* JavaScript truthiness of an optional flag / string
Truthy(o)    == o.def /\ o.val = TRUE
TruthyStr(o) == o.def /\ o.val # ""

\* extracted values
Null      == [t |-> "null", k |-> "none", attr |-> "", els |-> <<>>]
Undefined == [t |-> "undefined", k |-> "none", attr |-> "", els |-> <<>>]
One(k, attr, els)  == [t |-> "one", k |-> k, attr |-> attr, els |-> els]
Many(k, attr, els) == [t |-> "many", k |-> k, attr |-> attr, els |-> els]

\* which property of an element is read: the code decides it in four places.
\* The callback given to $$eval:
Kind(config) ==
    IF Truthy(config.text) THEN "text"
    ELSE IF Truthy(config.html) THEN "html"
    ELSE IF TruthyStr(config.attribute) THEN "attr"
    ELSE "text"

\* the callback given to $eval
KindEval(config) ==
    IF Truthy(config.text) THEN "text"
    ELSE IF Truthy(config.html) THEN "html"
    ELSE IF TruthyStr(config.attribute) THEN "attr"
    ELSE "text"

\* the callback given to .map() by the parser strategy
KindMap(config) ==
    IF Truthy(config.text) THEN "text"
    ELSE IF Truthy(config.html) THEN "html"
    ELSE IF TruthyStr(config.attribute) THEN "attr"
    ELSE "text"

KindSingle_htmlFirst(config) ==
    IF Truthy(config.html) THEN "html"
    ELSE IF Truthy(config.text) THEN "text"
    ELSE IF TruthyStr(config.attribute) THEN "attr"
    ELSE "text"

\* the if / else-if chain of the parser strategy for a single element
KindSingle(config) ==
    IF Truthy(config.text) THEN "text"
    ELSE IF Truthy(config.html) THEN "html"
    ELSE IF TruthyStr(config.attribute) THEN "attr"
    ELSE "text"

\* the attribute name an extraction of kind k reads
AttrFor(k, config) == IF k = "attr" THEN config.attribute.val ELSE ""

AttrOf(config) == AttrFor(Kind(config), config)

\* the try block of the browser strategy for one selector spec
BrowserExtract(config, rejects) ==
    LET m == Matches(config.selector)
    IN  IF rejects THEN [threw |-> TRUE, value |-> Null]
        ELSE IF Truthy(config.multiple)
        THEN [threw |-> FALSE, value |-> Many(Kind(config), AttrOf(config), m)]
        ELSE IF m = <<>>
        THEN [threw |-> TRUE, value |-> Null]      \* $eval finds no element
        ELSE [threw |-> FALSE,
              value |-> One(KindEval(config), AttrFor(KindEval(config), config),
                            <<Head(m)>>)]

\* the try block of the parser strategy for one selector spec
CheerioExtract(config, rejects) ==
    LET m == Matches(config.selector)
        k == IF Truthy(config.multiple) THEN KindMap(config) ELSE KindSingle(config)
        a == AttrFor(k, config)
        WithAttr(el) == HasAttr(el, a)
    IN  IF rejects THEN [threw |-> TRUE, value |-> Null]
        ELSE IF Truthy(config.multiple)
        THEN \* .map() leaves out elements whose callback returns undefined
             [threw |-> FALSE,
              value |-> Many(k, a, IF k = "attr" THEN SelectSeq(m, WithAttr) ELSE m)]
        ELSE IF k = "text"
        THEN [threw |-> FALSE, value |-> One(k, a, m)]   \* text() joins all matches
        ELSE IF k = "html"
        THEN [threw |-> FALSE,
              value |-> IF m = <<>> THEN Null ELSE One(k, a, <<Head(m)>>)]
        ELSE [threw |-> FALSE,
              value |-> IF m = <<>> \/ ~HasAttr(Head(m), a)
                        THEN Undefined ELSE One(k, a, <<Head(m)>>)]

EmptyData == [s \in {} |-> Null]

\* data[key] = value
Assign(data, key, value) ==
    [s \in DOMAIN data \cup {key} |-> IF s = key THEN value ELSE data[s]]

ExtractOne_abort(data, config, out) ==
    IF out.threw THEN data ELSE Assign(data, config.selector, out.value)

\* the catch block of the per-selector try
ExtractOne(data, config, out) ==
    IF out.threw THEN Assign(data, config.selector, Null)
                 ELSE Assign(data, config.selector, out.value)

\* the for loop over the selector specs, first spec first
RECURSIVE ExtractAll(_, _, _, _)
ExtractAll(selectors, rejects, engine, n) ==
    IF n = 0 THEN EmptyData
    ELSE ExtractOne(ExtractAll(selectors, rejects, engine, n - 1),
                    selectors[n],
                    IF engine = "cheerio"
                    THEN CheerioExtract(selectors[n], rejects[n])
                    ELSE BrowserExtract(selectors[n], rejects[n]))

----------------------------------------------------------------------------
(* scrapeUrl and its two strategies                                        *)

\* what the collaborators do during one scrape: the navigation / fetch fails;
\* or it succeeds and each selector evaluation resolves or rejects, after which
\* the reads made for the metadata succeed or fail.  A scrape whose navigation
\* or metadata read fails shows nothing of the selector evaluations, so one
\* representative of them is enough there.
ScrapeEnvs(selectors) ==
    LET none == [k \in 1..Len(selectors) |-> FALSE]
    IN  {[nav |-> "fails", rejects |-> none, meta |-> "ok"],
         [nav |-> "ok", rejects |-> none, meta |-> "fails"]}
        \cup [nav : {"ok"}, rejects : [1..Len(selectors) -> BOOLEAN], meta : {"ok"}]

Returned(v) == [threw |-> FALSE, value |-> v, err |-> <<>>]
Thrown(e)   == [threw |-> TRUE, value |-> [url |-> "", data |-> [null |-> TRUE, map |-> EmptyData],
                                           success |-> FALSE, metadata |-> {}],
                err |-> e]

scrapeWithBrowser(url, selectors, env, pg, creq) ==
    IF pg = 0 THEN Thrown(<<"Cannot read properties of undefined (reading 'goto')">>)
    ELSE IF creq[pg] > 0 THEN Thrown(<<"Navigation failed: session closed">>)
    ELSE IF env.nav = "fails" THEN Thrown(<<"Navigation failed">>)
    ELSE IF env.meta = "fails" THEN Thrown(<<"Reading the page metadata failed">>)
    ELSE Returned([url |-> url,
                   data |-> [null |-> FALSE,
                             map |-> ExtractAll(selectors, env.rejects, "browser",
                                                Len(selectors))],
                   success |-> TRUE,
                   metadata |-> {"title", "statusCode", "responseTime"}])

scrapeWithCheerio(url, selectors, env) ==
    IF env.nav = "fails" THEN Thrown(<<"Request failed">>)
    ELSE IF env.meta = "fails" THEN Thrown(<<"Reading the response failed">>)
    ELSE Returned([url |-> url,
                   data |-> [null |-> FALSE,
                             map |-> ExtractAll(selectors, env.rejects, "cheerio",
                                                Len(selectors))],
                   success |-> TRUE,
                   metadata |-> {"title", "statusCode", "responseTime",
                                 "contentLength"}])

\* the try block of scrapeUrl
Strategy(engine, url, selectors, env, pg, creq) ==
    IF engine = "cheerio" THEN scrapeWithCheerio(url, selectors, env)
    ELSE scrapeWithBrowser(url, selectors, env, pg, creq)

FailureResult(url) ==
    [url |-> url, data |-> [null |-> TRUE, map |-> EmptyData],
     success |-> FALSE, metadata |-> {"responseTime"}]

scrapeUrl_rethrow(engine, url, selectors, env, pg, creq) ==
    Strategy(engine, url, selectors, env, pg, creq)

scrapeUrl(engine, url, selectors, env, pg, creq) ==
    LET r == Strategy(engine, url, selectors, env, pg, creq)
    IN  IF r.threw THEN Returned(FailureResult(url)) ELSE r

CallScrapeUrl(url, selectors, env) ==
    /\ pc = "idle"
    /\ last.op = "none"
    /\ last' = [op |-> "scrapeUrl", url |-> url, selectors |-> selectors,
                env |-> env, engine |-> options.engine,
                attempt |-> Strategy(options.engine, url, selectors, env, page, closeReq),
                out |-> scrapeUrl(options.engine, url, selectors, env, page, closeReq)]
    /\ UNCHANGED <<cfgVars, lastOp, lifeVars, batchVars>>

\* the caller has looked at the settled call's outcome and moves on
Observe ==
    /\ last.op # "none"
    /\ last' = NoCall
    /\ UNCHANGED <<cfgVars, lastOp, lifeVars, batchVars>>

----------------------------------------------------------------------------
(* The facade's life: construction, init, scrapeUrl, close                 *)

MainPartials ==
    { [EmptyPartial EXCEPT !.engine = e] :
          e \in {NoStr, Some("playwright"), Some("cheerio"), Some("selenium")} }

Init == \E partial \in MainPartials : Constructed(partial)

Next ==
    \/ \E env \in InitEnvs : CallInit(env)
    \/ \E rejects \in BOOLEAN : CallClose(rejects)
    \/ \E url \in Urls, selectors \in SelLists :
           \E env \in ScrapeEnvs(selectors) : CallScrapeUrl(url, selectors, env)
    \/ Observe

Spec == Init /\ [][Next]_vars

----------------------------------------------------------------------------
(* Scrapes with one selector spec, over every setting of its flags         *)

FlagChoices == {NoBool, Some(TRUE), Some(FALSE)}

FlagSpecs ==
    { Sel(sel, attribute, text, html, multiple) :
          sel \in {"h1", "a"}, attribute \in {NoStr, Some(""), Some("href")},
          text \in FlagChoices, html \in FlagChoices, multiple \in FlagChoices }

FlagPartials ==
    { [EmptyPartial EXCEPT !.engine = e] :
          e \in {NoStr, Some("playwright"), Some("cheerio")} }

InitFlags == \E partial \in FlagPartials : Constructed(partial)

NextFlags ==
    \/ CallInit("ok")
    \/ \E url \in Urls, config \in FlagSpecs :
           \E env \in ScrapeEnvs(<<config>>) : CallScrapeUrl(url, <<config>>, env)
    \/ Observe

SpecFlags == InitFlags /\ [][NextFlags]_vars

----------------------------------------------------------------------------
(* scrapeUrls: the batch loop.  The flow is suspended at `await scrapeUrl` *)
(* (pc = "scraping") and at `await this.delay` (pc = "sleeping"); between  *)
(* two suspension points the code runs without interruption.               *)

Ev(e, i) == [e |-> e, i |-> i]

\* the locals of a running scrapeUrls call
Flow(p, i, rs, es, tr) ==
    [pc |-> p, idx |-> i, results |-> rs, errors |-> es, trace |-> tr,
     completed |-> <<>>]

\* `if (config.onComplete) config.onComplete(results, errors); return ...`
Complete(b, config, cThrows) ==
    IF config.onComplete
    THEN [b EXCEPT !.trace = Append(@, Ev("onComplete", 0)),
                   !.completed = Append(@, [results |-> b.results,
                                            errors |-> b.errors]),
                   !.pc = IF cThrows THEN "threw" ELSE "done"]
    ELSE [b EXCEPT !.pc = "done"]

\* the head of the for loop: take the next URL and call scrapeUrl, or leave
ForHead(b, config, cThrows) ==
    IF b.idx < Len(config.urls)
    THEN [b EXCEPT !.idx = @ + 1, !.trace = Append(@, Ev("start", b.idx + 1)),
                   !.pc = "scraping"]
    ELSE Complete(b, config, cThrows)

\* `if (this.options.delay > 0) await this.delay(this.options.delay)`
DelayStep_never(b, config, delay, cThrows) == ForHead(b, config, cThrows)

DelayStep(b, config, delay, cThrows) ==
    IF delay > 0
    THEN [b EXCEPT !.trace = Append(@, Ev("delay", b.idx)), !.pc = "sleeping"]
    ELSE ForHead(b, config, cThrows)

\* the catch block of the loop body; an exception of onError leaves scrapeUrls
CatchBlock(b, config, err, eThrows) ==
    LET b1 == [b EXCEPT !.errors = Append(@, [url |-> config.urls[b.idx], error |-> err]),
                        !.trace = Append(@, Ev("error", b.idx))]
    IN  IF config.onError
        THEN [b1 EXCEPT !.trace = Append(@, Ev("onError", b.idx)),
                        !.pc = IF eThrows THEN "threw" ELSE @]
        ELSE b1

\* the try block of the loop body, r being what `await scrapeUrl` settled to
TryBlock(b, config, r, sThrows, eThrows) ==
    IF r.threw THEN CatchBlock(b, config, r.err, eThrows)
    ELSE LET b1 == [b EXCEPT !.results = Append(@, r.value),
                             !.trace = Append(@, Ev("result", b.idx))]
         IN  IF r.value.success /\ config.onSuccess
             THEN LET b2 == [b1 EXCEPT !.trace = Append(@, Ev("onSuccess", b.idx))]
                  IN  IF sThrows
                      THEN CatchBlock(b2, config, <<"onSuccess threw">>, eThrows)
                      ELSE b2
             ELSE b1

\* one pass through the loop body once scrapeUrl has settled
LoopBody(b, config, r, delay, sThrows, eThrows, cThrows) ==
    LET b0 == [b EXCEPT !.trace = Append(@, Ev("finish", b.idx))]
        b1 == TryBlock(b0, config, r, sThrows, eThrows)
    IN  IF b1.pc = "threw" THEN b1 ELSE DelayStep(b1, config, delay, cThrows)

\* the batches: the first n URLs of a list in which a URL comes back
UrlFeed(k) == IF k % 3 = 2 THEN "http://b.test" ELSE "http://a.test"
BatchUrls == {[k \in 1..n |-> UrlFeed(k)] : n \in 0..MaxUrls}
BatchSelLists == { <<Sel("h1", NoStr, Some(TRUE), NoBool, NoBool)>> }
BatchConfigs ==
    [urls : BatchUrls, selectors : BatchSelLists,
     onSuccess : BOOLEAN, onError : BOOLEAN, onComplete : BOOLEAN]

Install(b) ==
    /\ pc' = b.pc
    /\ idx' = b.idx
    /\ results' = b.results
    /\ errors' = b.errors
    /\ trace' = b.trace
    /\ completed' = b.completed

\* scrapeUrls is called: up to the first suspension point
StartBatch(config, cThrows) ==
    /\ pc = "idle"
    /\ last.op = "none"
    /\ cfg' = config
    /\ scraped' = <<>>
    /\ Install(ForHead(Flow("idle", 0, <<>>, <<>>, <<>>), config, cThrows))
    /\ UNCHANGED <<cfgVars, lastOp, lifeVars, last>>

\* `await this.scrapeUrl(...)` settles: the rest of the loop body runs, up to
\* the next suspension point
FinishScrape(env, sThrows, eThrows, cThrows) ==
    LET r == scrapeUrl(options.engine, cfg.urls[idx], cfg.selectors, env, page, closeReq)
    IN  /\ pc = "scraping"
        /\ scraped' = Append(scraped, r)
        /\ Install(LoopBody(Flow(pc, idx, results, errors, trace), cfg, r,
                            options.delay, sThrows, eThrows, cThrows))
        /\ UNCHANGED <<cfgVars, lastOp, lifeVars, last, cfg>>

\* the timer of `await this.delay(...)` fires
Wake(cThrows) ==
    /\ pc = "sleeping"
    /\ Install(ForHead(Flow(pc, idx, results, errors, trace), cfg, cThrows))
    /\ UNCHANGED <<cfgVars, lastOp, lifeVars, last, cfg, scraped>>

\* the caller has received what scrapeUrls settled to
BatchObserve ==
    /\ pc \in {"done", "threw"}
    /\ cfg' = NoCfg
    /\ scraped' = <<>>
    /\ Install(Flow("idle", 0, <<>>, <<>>, <<>>))
    /\ UNCHANGED <<cfgVars, lastOp, lifeVars, last>>

BatchPartials ==
    { [EmptyPartial EXCEPT !.engine = e, !.concurrency = c] :
          e \in {NoStr, Some("cheerio")}, c \in {NoNum, Some(4)} }

BatchUpdates ==
    { [EmptyPartial EXCEPT !.delay = Some(0)],
      [EmptyPartial EXCEPT !.delay = Some(250)] }

InitBatch == \E partial \in BatchPartials : Constructed(partial)

NextBatch ==
    \/ CallInit("ok")
    \/ Observe
    \/ \E newOptions \in BatchUpdates : CallUpdateOptions(newOptions)
    \/ \E config \in BatchConfigs, cThrows \in BOOLEAN : StartBatch(config, cThrows)
    \/ \E env \in ScrapeEnvs(cfg.selectors), sThrows, eThrows, cThrows \in BOOLEAN :
           FinishScrape(env, sThrows, eThrows, cThrows)
    \/ \E cThrows \in BOOLEAN : Wake(cThrows)
    \/ BatchObserve

SpecBatch == InitBatch /\ [][NextBatch]_vars

----------------------------------------------------------------------------
(* Properties                                                              *)

Count(tr, e, i) == Cardinality({k \in DOMAIN tr : tr[k] = Ev(e, i)})

\* C1: a batch of N URLs returns results and errors with
\* results.length + errors.length = N, whatever the URLs and the callbacks do.
C1_LengthsAddUp ==
    pc = "done" => Len(results) + Len(errors) = Len(cfg.urls)

\* C2: every element of the results sequence of a batch has success = true.
C2_ResultsAreSuccesses ==
    \A k \in DOMAIN results : results[k].success

\* C3: for every URL of a batch whose scrape failed, onError was invoked exactly
\* once for it and exactly one error record was appended for it.
C3_FailuresAreReported ==
    pc = "done" =>
        \A i \in DOMAIN scraped :
            ~scraped[i].value.success =>
                /\ Count(trace, "error", i) = 1
                /\ cfg.onError => Count(trace, "onError", i) = 1

\* C4: scrapeUrl never throws, whatever the lifecycle state and the engine;
\* when the attempt fails it returns the given url with data = null and
\* success = false.
C4_ScrapeUrlNeverThrows ==
    last.op = "scrapeUrl" =>
        /\ ~last.out.threw
        /\ last.attempt.threw =>
              /\ last.out.value.url = last.url
              /\ last.out.value.data.null
              /\ ~last.out.value.success

C4_Witness ==
    /\ last.op = "scrapeUrl"
    /\ last.attempt.threw
    /\ browser # 0 /\ closeReq[browser] > 0
    /\ ~last.out.value.success

\* C5: init with an engine that is none of the three known variants fails with
\* an UnsupportedEngineError (not an InitializationError) naming the value, and
\* acquires no session handle.
C5_UnsupportedEngineError ==
    (last.op = "init" /\ last.engine \notin Engines) =>
        /\ last.threw
        /\ ErrorKind(last.err) = "UnsupportedEngineError"
        /\ Contains(last.err, last.engine)
        /\ ~last.acquired

\* C6: close is idempotent: it completes without error when init was never
\* called, and a close after a close neither fails nor asks the backend to
\* close the destroyed handle again.
C6_CloseIdempotent ==
    last.op = "close" =>
        /\ browser = 0 => ~last.threw /\ ~last.asked
        /\ last.closedBefore => ~last.threw /\ ~last.asked

SuppliedOr(o, d) == IF o.def THEN o.val ELSE d

\* C7: the configuration the constructor resolves has every supplied field at
\* the supplied value (numeric fields over all non-negative integers) and every
\* omitted field at its default.
C7_ConstructorResolves ==
    lastOp = "new" =>
        /\ options.engine = SuppliedOr(supplied.engine, "puppeteer")
        /\ options.headless = SuppliedOr(supplied.headless, TRUE)
        /\ options.timeout = SuppliedOr(supplied.timeout, 30000)
        /\ options.retries = SuppliedOr(supplied.retries, 3)
        /\ options.delay = SuppliedOr(supplied.delay, 1000)
        /\ options.concurrency = SuppliedOr(supplied.concurrency, 1)

\* C8 as stated: no mutation of the object getOptions returned, top-level or
\* through its nested viewport / proxy objects, changes what getOptions shows.
C8_NoMutationLeaks ==
    [][lastOp' \in {"mutateTop", "mutateNested"} =>
            Deep(store', this_options') = Deep(store, this_options)]_vars

\* C8, amended: no assignment to a top-level field of the object getOptions
\* returned changes what a later getOptions shows.
C8_TopLevelIsCopied ==
    [][lastOp' = "mutateTop" =>
            Deep(store', this_options') = Deep(store, this_options)]_vars

C8_Witness ==
    /\ lastOp = "mutateTop"
    /\ held # 0
    /\ store[held].timeout # store[this_options].timeout
    /\ store[held].engine # store[this_options].engine

\* the value the code is to store for the k-th selector spec of the last scrape
Expected(k) ==
    LET out == IF last.engine = "cheerio"
               THEN CheerioExtract(last.selectors[k], last.env.rejects[k])
               ELSE BrowserExtract(last.selectors[k], last.env.rejects[k])
    IN  IF out.threw THEN Null ELSE out.value

C10_SequentialWithDelay ==
    [][/\ (idx' # idx /\ pc' # "idle") => (idx' = idx + 1 /\ pc' = "scraping")
       /\ (pc' = "scraping" /\ idx' # idx) =>
              \/ pc = "idle" /\ idx' = 1
              \/ pc = "sleeping"
              \/ pc = "scraping" /\ options.delay <= 0
       /\ (pc = "scraping" /\ trace' # trace /\ pc' # "threw") =>
              IF options.delay > 0
              THEN pc' = "sleeping" /\ trace'[Len(trace')] = Ev("delay", idx)
                   /\ Count(trace', "onComplete", 0) = 0
              ELSE pc' # "sleeping" /\ Count(trace', "delay", idx) = 0
       /\ pc' = "sleeping" => pc \in {"scraping", "sleeping"}
      ]_vars

C10_Witness ==
    /\ pc = "done"
    /\ Len(cfg.urls) = 2
    /\ options.concurrency = 4
    /\ Len(trace) > 2
    /\ trace[Len(trace) - 1] = Ev("delay", 2)
    /\ trace[Len(trace)] = Ev("onComplete", 0)
    /\ Count(trace, "delay", 1) = 1

\* C11: a batch never aborts early: whatever happens while one URL is
\* processed, every URL of the input is scraped exactly once, and then
\* onComplete, if given, is called exactly once, with the final results and
\* errors.
C11_NeverAborts ==
    pc \in {"done", "threw"} =>
        /\ \A i \in 1..Len(cfg.urls) : Count(trace, "start", i) = 1
        /\ cfg.onComplete =>
               completed = <<[results |-> results, errors |-> errors]>>

\* the kind of extraction the flags of a spec ask for:
\* text > html > attribute > trimmed text
PrecedenceKind(c) ==
    CASE c.text.def /\ c.text.val -> "text"
      [] ~(c.text.def /\ c.text.val) /\ c.html.def /\ c.html.val -> "html"
      [] ~(c.text.def /\ c.text.val) /\ ~(c.html.def /\ c.html.val)
             /\ c.attribute.def /\ c.attribute.val # "" -> "attr"
      [] OTHER -> "text"

====
